---- MODULE Spec2Model ----
(***************************************************************************)
(* Bulk import loops of src/App.py (projects, unified task lists + tasks,  *)
(* custom post types) as a state machine.  One step of the machine is one  *)
(* iteration of an import loop; the remote server's answer to the write    *)
(* call of that iteration is the step's nondeterministic input.            *)
(* The helpers clean_payload, extract_title and fetch_all_pages are also    *)
(* run on their own (SpecClean, SpecTitle, SpecFetch) over bounded inputs. *)
(***************************************************************************)
EXTENDS Integers, Sequences, FiniteSets, TLC

(***************************************************************************)
(* Bounds of the model.                                                    *)
(***************************************************************************)
MaxLen == 2

(***************************************************************************)
(* Python values.  A string is a sequence of one-character strings, so     *)
(* that strip() and lower() are computed, not assumed.                     *)
(***************************************************************************)
None == [k |-> "none", s |-> <<>>, n |-> 0]
NaN == [k |-> "nan", s |-> <<>>, n |-> 0]
VStr(s) == [k |-> "str", s |-> s, n |-> 0]
VInt(n) == [k |-> "int", s |-> <<>>, n |-> n]
\* a nested mapping, e.g. the title object of the REST API; a list of n items
VDict(d) == [k |-> "dict", s |-> <<>>, n |-> 0, d |-> d]
VList(n) == [k |-> "list", s |-> <<>>, n |-> n]
\* a boxed (numpy) integer: a value that has an item() method
NpInt(n) == [k |-> "npint", s |-> <<>>, n |-> n]

\* mutant of Unbox: item() loses the value
UnboxAsNone(v) == IF v.k = "npint" THEN None ELSE v

\* if hasattr(v, 'item'): v = v.item()
Unbox(v) == IF v.k = "npint" THEN VInt(v.n) ELSE v

\* bool(v): None, "" and 0 are falsy; float('nan') is truthy.
Truthy(v) ==
  CASE v.k = "none" -> FALSE
    [] v.k = "str" -> v.s # <<>>
    [] v.k = "int" -> v.n # 0
    [] v.k = "nan" -> TRUE
    [] v.k = "npint" -> v.n # 0
    [] v.k = "dict" -> DOMAIN v.d # {}
    [] v.k = "list" -> v.n # 0

UpperChars == <<"A","B","C","D","E","F","G","H","I","J","K","L","M",
                "N","O","P","Q","R","S","T","U","V","W","X","Y","Z">>
LowerChars == <<"a","b","c","d","e","f","g","h","i","j","k","l","m",
                "n","o","p","q","r","s","t","u","v","w","x","y","z">>

LowerTable ==
  [c \in {UpperChars[i] : i \in 1..Len(UpperChars)} |->
     LowerChars[CHOOSE i \in 1..Len(UpperChars) : UpperChars[i] = c]]

LowerChar(c) == IF c \in DOMAIN LowerTable THEN LowerTable[c] ELSE c

\* str.lower()
Lower(s) == [i \in 1..Len(s) |-> LowerChar(s[i])]

RECURSIVE LStrip(_)
LStrip(s) == IF s # <<>> /\ Head(s) = " " THEN LStrip(Tail(s)) ELSE s

RECURSIVE RStrip(_)
RStrip(s) ==
  IF s # <<>> /\ s[Len(s)] = " " THEN RStrip(SubSeq(s, 1, Len(s) - 1)) ELSE s

\* str.strip()
Strip(s) == RStrip(LStrip(s))

DigitChars == <<"0","1","2","3","4","5","6","7","8","9">>

RECURSIVE Digits(_)
Digits(n) ==
  IF n < 10 THEN <<DigitChars[n + 1]>>
  ELSE Digits(n \div 10) \o <<DigitChars[(n % 10) + 1]>>

\* str(v), as used by f-strings and by str(item.get('type', ''))
PyStr(v) ==
  CASE v.k = "none" -> <<"N","o","n","e">>
    [] v.k = "nan" -> <<"n","a","n">>
    [] v.k = "str" -> v.s
    [] v.k = "int" -> IF v.n < 0 THEN <<"-">> \o Digits(-v.n) ELSE Digits(v.n)
    [] v.k = "npint" -> IF v.n < 0 THEN <<"-">> \o Digits(-v.n) ELSE Digits(v.n)

(***************************************************************************)
(* Field names (dictionary keys).                                          *)
(***************************************************************************)
K_id == "id"
K_ID == "ID"
K_Id == "Id"
K_iD == "iD"
K_type == "type"
K_title == "title"
K_content == "content"
K_description == "description"
K_status == "status"
K_order == "order"
K_milestone_id == "milestone_id"
K_project_id == "project_id"
K_task_list_name == "task_list_name"
K_task_list_id == "task_list_id"
K_priority == "priority"
K_start_at == "start_at"
K_due_date == "due_date"
K_complexity == "complexity"
K_parent_id == "parent_id"
K_payable == "payable"
K_recurrent == "recurrent"
K_estimation == "estimation"
K_category_id == "category_id"
K_budget == "budget"
K_color == "color"
K_excerpt == "excerpt"
K_featured_media == "featured_media"
K_project_title == "project_title"
K_name == "name"
K_rendered == "rendered"
K_data == "data"

\* the characters of each field name
Spell ==
  (K_id :> <<"i","d">>)
  @@ (K_ID :> <<"I","D">>)
  @@ (K_Id :> <<"I","d">>)
  @@ (K_iD :> <<"i","D">>)
  @@ (K_type :> <<"t","y","p","e">>)
  @@ (K_title :> <<"t","i","t","l","e">>)
  @@ (K_content :> <<"c","o","n","t","e","n","t">>)
  @@ (K_description :> <<"d","e","s","c","r","i","p","t","i","o","n">>)
  @@ (K_status :> <<"s","t","a","t","u","s">>)
  @@ (K_order :> <<"o","r","d","e","r">>)
  @@ (K_milestone_id :> <<"m","i","l","e","s","t","o","n","e","_","i","d">>)
  @@ (K_project_id :> <<"p","r","o","j","e","c","t","_","i","d">>)
  @@ (K_task_list_name :> <<"t","a","s","k","_","l","i","s","t","_","n","a","m","e">>)
  @@ (K_task_list_id :> <<"t","a","s","k","_","l","i","s","t","_","i","d">>)
  @@ (K_priority :> <<"p","r","i","o","r","i","t","y">>)
  @@ (K_start_at :> <<"s","t","a","r","t","_","a","t">>)
  @@ (K_due_date :> <<"d","u","e","_","d","a","t","e">>)
  @@ (K_complexity :> <<"c","o","m","p","l","e","x","i","t","y">>)
  @@ (K_parent_id :> <<"p","a","r","e","n","t","_","i","d">>)
  @@ (K_payable :> <<"p","a","y","a","b","l","e">>)
  @@ (K_recurrent :> <<"r","e","c","u","r","r","e","n","t">>)
  @@ (K_estimation :> <<"e","s","t","i","m","a","t","i","o","n">>)
  @@ (K_category_id :> <<"c","a","t","e","g","o","r","y","_","i","d">>)
  @@ (K_budget :> <<"b","u","d","g","e","t">>)
  @@ (K_color :> <<"c","o","l","o","r">>)
  @@ (K_excerpt :> <<"e","x","c","e","r","p","t">>)
  @@ (K_featured_media :> <<"f","e","a","t","u","r","e","d","_","m","e","d","i","a">>)
  @@ (K_project_title :> <<"p","r","o","j","e","c","t","_","t","i","t","l","e">>)
  @@ (K_name :> <<"n","a","m","e">>)
  @@ (K_rendered :> <<"r","e","n","d","e","r","e","d">>)
  @@ (K_data :> <<"d","a","t","a">>)

\* dict.get(key, default)
Get(d, key, default) == IF key \in DOMAIN d THEN d[key] ELSE default

\* a or b
PyOr(a, b) == IF Truthy(a) THEN a ELSE b

EmptyDict == [x \in {} |-> None]

\* d[key] = v
Put(d, key, v) == [x \in (DOMAIN d) \cup {key} |-> IF x = key THEN v ELSE d[x]]

(***************************************************************************)
(* Helper functions of the program.                                        *)
(***************************************************************************)

\* mutant of extract_title: name is preferred to project_title
extract_title_name_first(p) ==
  LET t == Get(p, K_title, None)
  IN IF t.k = "dict" THEN Get(t.d, K_rendered, VStr(<<>>))
     ELSE IF t.k = "str" THEN t
     ELSE PyOr(PyOr(Get(p, K_name, None), Get(p, K_project_title, None)),
               VStr(<<>>))

\* def extract_title(p)
extract_title(p) ==
  LET t == Get(p, K_title, None)
  IN IF t.k = "dict" THEN Get(t.d, K_rendered, VStr(<<>>))
     ELSE IF t.k = "str" THEN t
     ELSE PyOr(PyOr(Get(p, K_project_title, None), Get(p, K_name, None)),
               VStr(<<>>))

\* mutant of IsIdKey: the comparison forgets lower()
IsIdKeyExact(k) == Spell[k] = Spell[K_id]

\* k.lower() in ['id']
IsIdKey(k) == Lower(Spell[k]) = Spell[K_id]

\* mutant of IsEmptyValue: the string is not stripped before the test
IsEmptyValueNoStrip(v) ==
  \/ v.k = "nan"
  \/ v.k = "none"
  \/ v.k = "str" /\ v.s = <<>>

\* the skip_empty test of clean_payload: NaN float, None, blank string
IsEmptyValue(v) ==
  \/ v.k = "nan"
  \/ v.k = "none"
  \/ v.k = "str" /\ Strip(v.s) = <<>>

\* mutant of clean_payload: the id field is never excluded
clean_payload_keep_id(item, selected_fields, skip_empty, exclude_id) ==
  LET Keep(k) ==
        /\ ~(selected_fields # {} /\ k \notin selected_fields)
        /\ ~(skip_empty /\ IsEmptyValue(item[k]))
  IN [k \in {x \in DOMAIN item : Keep(x)} |-> Unbox(item[k])]

clean_payload(item, selected_fields, skip_empty, exclude_id) ==
  LET Keep(k) ==
        /\ ~(exclude_id /\ IsIdKey(k))
        /\ ~(selected_fields # {} /\ k \notin selected_fields)
        /\ ~(skip_empty /\ IsEmptyValue(item[k]))
  IN [k \in {x \in DOMAIN item : Keep(x)} |-> Unbox(item[k])]

\* item_id = item.get('id') or item.get('ID')
ItemId(item) == PyOr(Get(item, K_id, None), Get(item, K_ID, None))

\* mutant of Decision: Create New Only falls through to the Smart branch
DecisionCreateAsSmart(mode, item_id) ==
  CASE mode = "UpdateOnly" -> IF Truthy(item_id) THEN "update" ELSE "skip"
    [] OTHER -> IF Truthy(item_id) THEN "update" ELSE "create"

\* should_create / should_update / skip, from the import mode and item_id
Decision(mode, item_id) ==
  CASE mode = "CreateOnly" -> "create"
    [] mode = "UpdateOnly" -> IF Truthy(item_id) THEN "update" ELSE "skip"
    [] mode = "Smart" -> IF Truthy(item_id) THEN "update" ELSE "create"

\* selected_project_id, the project chosen in the Tasks & Lists tab
selected_project_id == VInt(1)

\* payload[f] = item[f] for each f of fields with: f in item and item[f]
RECURSIVE AddIfTruthy(_, _, _)
AddIfTruthy(payload, item, fields) ==
  IF fields = <<>> THEN payload
  ELSE LET f == Head(fields)
           p == IF f \in DOMAIN item /\ Truthy(item[f])
                  THEN Put(payload, f, item[f]) ELSE payload
       IN AddIfTruthy(p, item, Tail(fields))

\* Phase 1 payload of a task list
TaskListPayload(item) ==
  LET base == Put(Put(Put(EmptyDict, K_title, Get(item, K_title, VStr(<<>>))),
                      K_description, Get(item, K_description, VStr(<<>>))),
                  K_project_id, selected_project_id)
  IN AddIfTruthy(base, item, <<K_order, K_status, K_milestone_id>>)

\* item[field] not in [None, '', 'None']
NotBlankOptional(v) ==
  ~(v.k = "none" \/ v = VStr(<<>>) \/ v = VStr(<<"N","o","n","e">>))

RECURSIVE AddOptional(_, _, _)
AddOptional(payload, item, fields) ==
  IF fields = <<>> THEN payload
  ELSE LET f == Head(fields)
           p == IF f \in DOMAIN item /\ NotBlankOptional(item[f])
                  THEN Put(payload, f, item[f]) ELSE payload
       IN AddOptional(p, item, Tail(fields))

\* The parent id a task is sent with: the name lookup in the map built in
\* phase 1 is tried first, the record's own task_list_id second.
LinkTaskList(payload, item, name_to_id) ==
  LET task_list_name == Get(item, K_task_list_name, VStr(<<>>))
  IN IF Truthy(task_list_name) /\ task_list_name \in DOMAIN name_to_id
       THEN Put(payload, K_task_list_id, name_to_id[task_list_name])
     ELSE IF K_task_list_id \in DOMAIN item /\ Truthy(item[K_task_list_id])
       THEN Put(payload, K_task_list_id, item[K_task_list_id])
     ELSE payload

\* Phase 2 payload of a task
TaskPayload(item, name_to_id) ==
  LET base == Put(Put(Put(EmptyDict, K_title, Get(item, K_title, VStr(<<>>))),
                      K_description, Get(item, K_description, VStr(<<>>))),
                  K_project_id, selected_project_id)
  IN AddOptional(LinkTaskList(base, item, name_to_id), item,
                 <<K_start_at, K_due_date, K_complexity, K_priority, K_status,
                   K_parent_id, K_order, K_payable, K_recurrent,
                   K_estimation>>)

\* 'title' not in payload or not payload.get('title')
ProjectTitleMissing(payload) ==
  K_title \notin DOMAIN payload \/ ~Truthy(Get(payload, K_title, None))

\* not payload.get('title')
UnifiedTitleMissing(payload) == ~Truthy(Get(payload, K_title, None))

\* 'title' not in payload and 'content' not in payload
CptTitleMissing(payload) ==
  K_title \notin DOMAIN payload /\ K_content \notin DOMAIN payload

\* str(item.get('type', '')).lower() == t
HasType(item, t) == Lower(PyStr(Get(item, K_type, VStr(<<>>)))) = t

\* [item for item in data if <type is t>]
RECURSIVE SelectType(_, _)
SelectType(data, t) ==
  IF data = <<>> THEN <<>>
  ELSE IF HasType(Head(data), t)
    THEN <<Head(data)>> \o SelectType(Tail(data), t)
    ELSE SelectType(Tail(data), t)

\* mutant of ItemsToProcess: the test-mode checkbox is not consulted
ItemsToProcessAll(data, test) == data

\* data[:1] if test else data
ItemsToProcess(data, test) ==
  IF test THEN SubSeq(data, 1, IF Len(data) < 1 THEN Len(data) ELSE 1)
  ELSE data

(***************************************************************************)
(* The remote resource client.  A write call ends in one of these ways;    *)
(* which one is the environment's choice.                                  *)
(*   neterr, timeout : requests raises (no response)                       *)
(*   http            : raise_for_status() raises HTTPError (non-2xx)       *)
(*   badjson         : res.json() raises (2xx, body is not JSON)           *)
(*   nanreject       : the payload holds NaN and the HTTP library refuses  *)
(*                     to serialise it; nothing is sent                    *)
(*   json_empty      : 2xx, body is falsy JSON ({}, [], null, 0, false)    *)
(*   json_nondict    : 2xx, body is truthy JSON but no object              *)
(*   json_noid       : 2xx, body is a non-empty object without "id"        *)
(*   json_obj        : 2xx, body is an object with the record's id         *)
(***************************************************************************)
TransportFailures == {"neterr", "timeout", "http", "badjson"}
JsonBodies == {"json_empty", "json_nondict", "json_noid", "json_obj"}

HasNaN(payload) == \E k \in DOMAIN payload : payload[k].k = "nan"

\* requests.post/put(json=payload): what can happen to the call
Responses(payload) ==
  TransportFailures \cup JsonBodies
    \cup (IF HasNaN(payload) THEN {"nanreject"} ELSE {})

\* whether the request went out to the remote
Sent(resp) == resp # "nanreject"

\* return res.json(), or None from either except branch
wp_post_json(resp) == IF resp \in JsonBodies THEN resp ELSE "None"

\* mutant of wp_put_json: raise_for_status() is missing, the body of an
\* error response is returned as the result
wp_put_json_unchecked(resp) ==
  IF resp = "http" THEN "json_obj"
  ELSE IF resp \in JsonBodies THEN resp ELSE "None"

wp_put_json(resp) == IF resp \in JsonBodies THEN resp ELSE "None"

\* if res:
ResTruthy(res) == res \in {"json_nondict", "json_noid", "json_obj"}

\* res.get('id') raises AttributeError when res is no mapping
GetRaises(res) == res = "json_nondict"

\* res.get('id')
ResId(res, fresh) == IF res = "json_obj" THEN VInt(fresh) ELSE None

(***************************************************************************)
(* Uploaded batches.  JSON uploads give records with differing key sets    *)
(* and null / "" values; CSV uploads give NaN for a blank cell.            *)
(***************************************************************************)
T_S == VStr(<<"S">>)
T_T == VStr(<<"T">>)
T_x == VStr(<<"x">>)
T_empty == VStr(<<>>)
T_tasklist == VStr(<<"t","a","s","k","l","i","s","t">>)
T_TaskList == VStr(<<"T","a","s","k","L","i","s","t">>)
T_task == VStr(<<"t","a","s","k">>)

ProjectRecords ==
  { (K_title :> T_S) @@ (K_status :> VStr(<<"a">>)),
    (K_id :> VInt(7)) @@ (K_title :> T_S),
    (K_ID :> VInt(8)) @@ (K_title :> T_T),
    (K_id :> NaN) @@ (K_title :> T_S),
    (K_id :> T_empty) @@ (K_title :> T_empty),
    (K_id :> VInt(7)) @@ (K_title :> NaN) }

CptRecords ==
  { (K_title :> T_S) @@ (K_content :> VStr(<<"c">>)),
    (K_id :> VInt(7)) @@ (K_title :> T_S),
    (K_content :> VStr(<<"c">>)) @@ (K_status :> VStr(<<"a">>)),
    (K_id :> NaN) @@ (K_title :> T_empty) }

TaskListRecords ==
  { (K_type :> T_tasklist) @@ (K_title :> T_S),
    (K_type :> T_TaskList) @@ (K_id :> VInt(7)) @@ (K_title :> T_S),
    (K_type :> T_tasklist) @@ (K_id :> NaN) @@ (K_title :> T_empty) }

TaskRecords ==
  { (K_type :> T_task) @@ (K_title :> T_x) @@ (K_task_list_name :> T_S),
    (K_type :> T_task) @@ (K_title :> T_x)
       @@ (K_task_list_name :> VStr(<<" ","s"," ">>)),
    (K_type :> T_task) @@ (K_id :> VInt(9)) @@ (K_title :> T_x)
       @@ (K_task_list_name :> T_S) @@ (K_task_list_id :> VInt(5)),
    (K_type :> T_task) @@ (K_title :> T_empty) @@ (K_task_list_name :> T_S) }

UnifiedRecords == TaskListRecords \cup TaskRecords

SeqsUpTo(S, n) == UNION { [1..m -> S] : m \in 0..n }

\* Unified uploads: every mixed batch up to the bound, and the batches of
\* two task lists followed by one task.
UnifiedBatches ==
  SeqsUpTo(UnifiedRecords, MaxLen)
    \cup { <<a, b, c>> : a \in TaskListRecords, b \in TaskListRecords,
                         c \in TaskRecords }

\* default_project_fields / cpt_default_fields
DefaultProjectFields ==
  {K_title, K_description, K_status, K_start_at, K_due_date, K_category_id,
   K_budget, K_color}
DefaultCptFields ==
  {K_title, K_content, K_status, K_excerpt, K_featured_media}

\* what the multiselect can hold: its default, nothing, or every option
FieldChoices(data, defaults) ==
  LET available_fields == IF data = <<>> THEN {} ELSE DOMAIN data[1]
  IN {available_fields \cap defaults, {}, available_fields}

Modes == {"CreateOnly", "UpdateOnly", "Smart"}

(***************************************************************************)
(* State.                                                                  *)
(***************************************************************************)
VARIABLES
  loop,                  \* which import button was pressed
  import_mode,           \* the Import Mode radio
  test_import,           \* the test-mode checkbox
  import_data,           \* the uploaded batch
  task_lists_data,       \* its records of type tasklist (unified import)
  tasks_data,            \* its records of type task (unified import)
  selected_fields,       \* the field multiselect (projects, CPT)
  skip_empty,            \* the "Skip empty/null values" checkbox
  phase,                 \* "run" | "p1" | "p2" | "done" | "aborted"
  idx,                   \* records of the current loop already iterated
  tally,                 \* created / updated / skipped / failed per loop
  task_list_name_to_id,  \* the parent resolution map of a unified import
  calls,                 \* history: write calls that reached the remote
  outcomes,              \* history: what became of each iterated record
  last,                  \* history: the most recent iteration
  fn,                    \* a helper function called on its own: its arguments
  ret                    \* what that call has returned so far

inputs == <<loop, import_mode, test_import, import_data, task_lists_data,
            tasks_data, selected_fields, skip_empty, fn, ret>>
vars == <<loop, import_mode, test_import, import_data, task_lists_data,
          tasks_data, selected_fields, skip_empty, phase, idx, tally,
          task_list_name_to_id, calls, outcomes, last, fn, ret>>

ZeroTally == [created |-> 0, updated |-> 0, skipped |-> 0, failed |-> 0]
NoLast == [ph |-> "none", i |-> 0, resp |-> "none"]
NoCall == [name |-> "none"]

Init ==
  /\ loop \in {"projects", "unified", "cpt"}
  /\ import_mode \in Modes
  /\ test_import \in BOOLEAN
  /\ import_data \in
       CASE loop = "projects" -> SeqsUpTo(ProjectRecords, MaxLen)
         [] loop = "cpt" -> SeqsUpTo(CptRecords, MaxLen)
         [] loop = "unified" -> UnifiedBatches
  /\ task_lists_data =
       IF loop = "unified" THEN SelectType(import_data, T_tasklist.s) ELSE <<>>
  /\ tasks_data =
       IF loop = "unified" THEN SelectType(import_data, T_task.s) ELSE <<>>
  /\ selected_fields \in
       CASE loop = "projects" -> FieldChoices(import_data, DefaultProjectFields)
         [] loop = "cpt" -> FieldChoices(import_data, DefaultCptFields)
         [] loop = "unified" -> {{}}
  /\ skip_empty \in IF loop = "unified" THEN {TRUE} ELSE BOOLEAN
  /\ phase = IF loop = "unified" THEN "p1" ELSE "run"
  /\ idx = 0
  /\ tally = [ph \in {"run", "p1", "p2"} |-> ZeroTally]
  /\ task_list_name_to_id = EmptyDict
  /\ calls = <<>>
  /\ outcomes = <<>>
  /\ last = NoLast
  /\ fn = NoCall
  /\ ret = <<>>

\* the records the loop of phase ph iterates
Items(ph) ==
  CASE ph = "run" -> ItemsToProcess(import_data, test_import)
    [] ph = "p1" -> ItemsToProcess(task_lists_data, test_import)
    [] ph = "p2" -> ItemsToProcess(tasks_data, test_import)
    [] OTHER -> <<>>

\* the collection a loop writes to
Collection(ph) ==
  CASE ph = "p1" -> "task-lists"
    [] ph = "p2" -> "tasks"
    [] OTHER -> loop

\* mutant of PayloadOf: the payload is built from the record after the
\* current one when there is one
PayloadOfNextRecord(ph, item, name_to_id) ==
  LET it == IF idx + 2 <= Len(Items(ph)) THEN Items(ph)[idx + 2] ELSE item
  IN CASE ph = "p1" -> TaskListPayload(it)
       [] ph = "p2" -> TaskPayload(it, name_to_id)
       [] OTHER -> clean_payload(it, selected_fields, skip_empty, TRUE)

\* the payload built for a record
PayloadOf(ph, item, name_to_id) ==
  CASE ph = "p1" -> TaskListPayload(item)
    [] ph = "p2" -> TaskPayload(item, name_to_id)
    [] OTHER -> clean_payload(item, selected_fields, skip_empty, TRUE)

\* the title test that makes a loop pass over a record
TitleMissing(ph, payload) ==
  CASE ph \in {"p1", "p2"} -> UnifiedTitleMissing(payload)
    [] loop = "cpt" -> CptTitleMissing(payload)
    [] OTHER -> ProjectTitleMissing(payload)

\* whether the create branch evaluates res.get('id')
ReadsNewId(ph) == ph = "p1" \/ test_import

\* mutant of RecordParent: the task loop writes the map too
RecordParentAnyPhase(ph, item, id) ==
  IF ph \in {"p1", "p2"}
    THEN Put(task_list_name_to_id, Get(item, K_title, VStr(<<>>)), id)
    ELSE task_list_name_to_id

\* task_list_name_to_id[task_list_name] = id, in phase 1 only
RecordParent(ph, item, id) ==
  IF ph = "p1"
    THEN Put(task_list_name_to_id, Get(item, K_title, VStr(<<>>)), id)
    ELSE task_list_name_to_id

(***************************************************************************)
(* One iteration of an import loop.                                        *)
(***************************************************************************)

\* mutant of Account: a failure resets the created and updated counts of
\* the loop
AccountRollingBack(ph, out, why, resp, new_calls, new_map, raised) ==
  /\ tally' = IF out = "failed"
                THEN [tally EXCEPT ![ph] = [created |-> 0, updated |-> 0,
                                            skipped |-> @.skipped,
                                            failed |-> @.failed + 1]]
                ELSE [tally EXCEPT ![ph][out] = @ + 1]
  /\ outcomes' = Append(outcomes, [ph |-> ph, i |-> idx + 1, out |-> out,
                                   why |-> why])
  /\ last' = [ph |-> ph, i |-> idx + 1, resp |-> resp]
  /\ calls' = new_calls
  /\ task_list_name_to_id' = new_map
  /\ phase' = IF raised THEN "aborted" ELSE phase
  /\ idx' = IF raised THEN idx ELSE idx + 1
  /\ UNCHANGED inputs

\* mutant of Account: the id field is deleted from the record itself
\* instead of being left out of a fresh payload
AccountDeletingId(ph, out, why, resp, new_calls, new_map, raised) ==
  /\ tally' = [tally EXCEPT ![ph][out] = @ + 1]
  /\ outcomes' = Append(outcomes, [ph |-> ph, i |-> idx + 1, out |-> out,
                                   why |-> why])
  /\ last' = [ph |-> ph, i |-> idx + 1, resp |-> resp]
  /\ calls' = new_calls
  /\ task_list_name_to_id' = new_map
  /\ phase' = IF raised THEN "aborted" ELSE phase
  /\ idx' = IF raised THEN idx ELSE idx + 1
  /\ import_data' =
       IF ph = "run"
         THEN [import_data EXCEPT ![idx + 1] = clean_payload(@, {}, FALSE, TRUE)]
         ELSE import_data
  /\ UNCHANGED <<loop, import_mode, test_import, task_lists_data, tasks_data,
                 selected_fields, skip_empty, fn, ret>>

\* the counters and histories after the iteration; raised: an exception
\* left the loop (the script run ends there)
Account(ph, out, why, resp, new_calls, new_map, raised) ==
  /\ tally' = [tally EXCEPT ![ph][out] = @ + 1]
  /\ outcomes' = Append(outcomes, [ph |-> ph, i |-> idx + 1, out |-> out,
                                   why |-> why])
  /\ last' = [ph |-> ph, i |-> idx + 1, resp |-> resp]
  /\ calls' = new_calls
  /\ task_list_name_to_id' = new_map
  /\ phase' = IF raised THEN "aborted" ELSE phase
  /\ idx' = IF raised THEN idx ELSE idx + 1
  /\ UNCHANGED inputs

\* mutant of LoopFinished: the loop ends one record early
LoopFinishedEarly(ph) == idx + 1 >= Len(Items(ph))

\* the loop has iterated all its records
LoopFinished(ph) == idx = Len(Items(ph))

Iterate(ph) ==
  LET item == Items(ph)[idx + 1]
      item_id == ItemId(item)
      d == Decision(import_mode, item_id)
      payload == PayloadOf(ph, item, task_list_name_to_id)
  IN
  IF d = "skip"
    THEN Account(ph, "skipped", "noid", "none", calls, task_list_name_to_id,
                 FALSE)
  ELSE IF TitleMissing(ph, payload)
    THEN Account(ph, "failed", "notitle", "none", calls, task_list_name_to_id,
                 FALSE)
  ELSE \E resp \in Responses(payload) :
    LET res == IF d = "update" THEN wp_put_json(resp) ELSE wp_post_json(resp)
        call == [method |-> IF d = "update" THEN "PUT" ELSE "POST",
                 coll |-> Collection(ph),
                 target |-> IF d = "update" THEN PyStr(item_id) ELSE <<>>,
                 payload |-> payload, ph |-> ph, i |-> idx + 1]
        new_calls == IF Sent(resp) THEN Append(calls, call) ELSE calls
    IN
    IF ~ResTruthy(res)
      THEN Account(ph, "failed", "write", resp, new_calls,
                   task_list_name_to_id, FALSE)
    ELSE IF d = "update"
      THEN Account(ph, "updated", "write", resp, new_calls,
                   RecordParent(ph, item, item_id), FALSE)
    ELSE IF ReadsNewId(ph) /\ GetRaises(res)
      THEN Account(ph, "created", "write", resp, new_calls,
                   task_list_name_to_id, TRUE)
    ELSE Account(ph, "created", "write", resp, new_calls,
                 RecordParent(ph, item, ResId(res, 40 + Len(new_calls))),
                 FALSE)

\* for idx, item in enumerate(items_to_process): (Import Projects)
ImportProject ==
  /\ loop = "projects" /\ phase = "run" /\ ~LoopFinished("run")
  /\ Iterate("run")

\* for idx, item in enumerate(items): (Import custom post type)
ImportCpt ==
  /\ loop = "cpt" /\ phase = "run" /\ ~LoopFinished("run")
  /\ Iterate("run")

\* for idx, item in enumerate(tl_items): (unified import, phase 1)
ImportTaskList ==
  /\ loop = "unified" /\ phase = "p1" /\ ~LoopFinished("p1")
  /\ Iterate("p1")

\* for idx, item in enumerate(t_items): (unified import, phase 2)
ImportTask ==
  /\ loop = "unified" /\ phase = "p2" /\ ~LoopFinished("p2")
  /\ Iterate("p2")

\* the loop is over: the summary of a projects or CPT import
ImportSummary ==
  /\ loop \in {"projects", "cpt"} /\ phase = "run" /\ LoopFinished("run")
  /\ phase' = "done"
  /\ UNCHANGED <<inputs, idx, tally, task_list_name_to_id, calls, outcomes,
                 last>>

\* phase 1 is over: its summary, then phase 2 starts
TaskListsSummary ==
  /\ loop = "unified" /\ phase = "p1" /\ LoopFinished("p1")
  /\ phase' = "p2"
  /\ idx' = 0
  /\ UNCHANGED <<inputs, tally, task_list_name_to_id, calls, outcomes, last>>

\* phase 2 is over: its summary and the overall summary
TasksSummary ==
  /\ loop = "unified" /\ phase = "p2" /\ LoopFinished("p2")
  /\ phase' = "done"
  /\ UNCHANGED <<inputs, idx, tally, task_list_name_to_id, calls, outcomes,
                 last>>

Next ==
  \/ ImportProject
  \/ ImportCpt
  \/ ImportTaskList
  \/ ImportTask
  \/ ImportSummary
  \/ TaskListsSummary
  \/ TasksSummary

Spec == Init /\ [][Next]_vars

(***************************************************************************)
(* Vocabulary of the properties.                                           *)
(***************************************************************************)

\* the record iterated as number i of loop ph
ItemOf(ph, i) == Items(ph)[i]

\* the write calls caused by record i of loop ph
CallsFor(ph, i) ==
  {k \in 1..Len(calls) : calls[k].ph = ph /\ calls[k].i = i}

\* an id value that is there and not empty: not null, not "", not the NaN
\* of a blank cell
NonEmptyId(v) == v.k = "int" \/ (v.k = "str" /\ v.s # <<>>)

\* the record carries a non-empty id (under either spelling the loops read)
RecordHasId(item) ==
  NonEmptyId(Get(item, K_id, None)) \/ NonEmptyId(Get(item, K_ID, None))

\* the payload holds a field named id, in any casing
HasIdField(payload) == \E k \in DOMAIN payload : Lower(Spell[k]) = <<"i","d">>

\* the outcomes recorded for loop ph
OutcomesOf(ph) == {k \in 1..Len(outcomes) : outcomes[k].ph = ph}

(***************************************************************************)
(* C1.  In Smart mode a record with a non-empty id causes no create call   *)
(* and a record with no id causes no update call: the only write a record  *)
(* causes is PUT {collection}/{id} when it has an id and POST {collection} *)
(* when it has none.                                                       *)
(***************************************************************************)
C1_SmartWritesFollowId ==
  import_mode = "Smart" =>
    \A k \in 1..Len(calls) :
      LET c == calls[k]
          item == ItemOf(c.ph, c.i)
      IN IF RecordHasId(item)
           THEN c.method = "PUT" /\ c.target = PyStr(ItemId(item))
           ELSE c.method = "POST" /\ c.target = <<>>

(***************************************************************************)
(* C2.  In UpdateOnly mode a record without an id is skipped (skipped      *)
(* grows by one, no other counter changes, no call is issued for it) and a *)
(* record with an id causes only an update call.                           *)
(***************************************************************************)
C2_UpdateOnlySkipsNoId ==
  import_mode = "UpdateOnly" =>
    /\ \A k \in 1..Len(outcomes) :
         LET o == outcomes[k]
             item == ItemOf(o.ph, o.i)
         IN IF RecordHasId(item)
              THEN \A j \in CallsFor(o.ph, o.i) : calls[j].method = "PUT"
              ELSE o.out = "skipped" /\ CallsFor(o.ph, o.i) = {}
    /\ \A ph \in {"run", "p1", "p2"} :
         tally[ph].skipped =
           Cardinality({k \in OutcomesOf(ph) : outcomes[k].out = "skipped"})

(***************************************************************************)
(* C3.  In CreateOnly mode every record that reaches the network causes a  *)
(* create (POST to the collection base), never an update, whether or not   *)
(* it carries an id, and the payload sent holds no id field.               *)
(***************************************************************************)
C3_CreateOnlyPostsWithoutId ==
  import_mode = "CreateOnly" =>
    \A k \in 1..Len(calls) :
      /\ calls[k].method = "POST"
      /\ calls[k].target = <<>>
      /\ ~HasIdField(calls[k].payload)

\* a CreateOnly call went out for a record that carries an id, under either
\* spelling, with the id field among the selected fields
C3_Witness ==
  /\ import_mode = "CreateOnly"
  /\ \E k \in 1..Len(calls) :
       /\ RecordHasId(ItemOf(calls[k].ph, calls[k].i))
       /\ K_ID \in DOMAIN ItemOf(calls[k].ph, calls[k].i)
  /\ \E k \in 1..Len(calls) :
       /\ K_id \in DOMAIN ItemOf(calls[k].ph, calls[k].i)
       /\ K_id \in selected_fields

(***************************************************************************)
(* C4.  A full (non-test) CreateOnly run over N records in which every     *)
(* remote create call succeeds ends with exactly N created, 0 updated,     *)
(* 0 skipped, 0 failed, the create calls in batch order.                   *)
(***************************************************************************)

\* no write of the run failed
NoFailedWrite ==
  \A k \in 1..Len(outcomes) :
    ~(outcomes[k].why = "write" /\ outcomes[k].out = "failed")

\* no record was passed over by the loop's title test
NoTitleFailure == \A k \in 1..Len(outcomes) : outcomes[k].why # "notitle"

\* N created and nothing else, one POST per record, in batch order
AllCreatedInOrder ==
  /\ tally["run"] = [created |-> Len(import_data), updated |-> 0,
                     skipped |-> 0, failed |-> 0]
  /\ Len(calls) = Len(import_data)
  /\ \A k \in 1..Len(calls) : calls[k].i = k /\ calls[k].method = "POST"

\* C4 as stated: any batch, provided every create call succeeds
C4_CreateOnlyAllCreated ==
  ( /\ loop \in {"projects", "cpt"}
    /\ import_mode = "CreateOnly" /\ ~test_import /\ phase = "done"
    /\ NoFailedWrite )
  => AllCreatedInOrder

\* C4 as amended: provided also that every record passes the title test
C4_CreateOnlyAllCreatedWithTitles ==
  ( /\ loop \in {"projects", "cpt"}
    /\ import_mode = "CreateOnly" /\ ~test_import /\ phase = "done"
    /\ NoFailedWrite /\ NoTitleFailure )
  => AllCreatedInOrder

\* a finished full CreateOnly run of two records, one of them carrying an
\* id, all writes successful
C4_Witness ==
  /\ loop \in {"projects", "cpt"}
  /\ import_mode = "CreateOnly" /\ ~test_import /\ phase = "done"
  /\ NoFailedWrite /\ NoTitleFailure
  /\ Len(import_data) = 2
  /\ \E i \in 1..2 : RecordHasId(import_data[i])
  /\ tally["run"].created = 2

(***************************************************************************)
(* Parent resolution of the unified import.                                *)
(***************************************************************************)

\* a name as the matching is specified: trimmed and case-folded
Norm(v) == Lower(Strip(PyStr(v)))

\* the task carries an explicit, non-empty task_list_id
ExplicitParent(item) ==
  K_task_list_id \in DOMAIN item /\ Truthy(item[K_task_list_id])

\* the titles recorded in phase 1 that the task's task_list_name names
MatchingParents(item) ==
  LET name == Get(item, K_task_list_name, VStr(<<>>))
  IN {key \in DOMAIN task_list_name_to_id :
        Norm(name) # <<>> /\ Norm(key) = Norm(name)}

(***************************************************************************)
(* C5.  A task whose task_list_name matches no task list created or        *)
(* updated in phase 1, and that carries no explicit task_list_id, is       *)
(* counted as failed and causes no network call.                           *)
(***************************************************************************)
C5_OrphanTaskNotSent ==
  \A k \in OutcomesOf("p2") :
    LET o == outcomes[k]
        item == ItemOf("p2", o.i)
    IN (~ExplicitParent(item) /\ MatchingParents(item) = {}) =>
         /\ CallsFor("p2", o.i) = {}
         /\ o.out \in {"failed", "skipped"}

(***************************************************************************)
(* C6.  Parent lookup by name ignores case and surrounding whitespace: a   *)
(* task without explicit task_list_id whose task_list_name equals, after   *)
(* trimming and case-folding, the title of a task list recorded in phase 1 *)
(* with id I is sent with task_list_id = I.                                *)
(***************************************************************************)
C6_LookupIsNormalised ==
  \A k \in 1..Len(calls) :
    LET c == calls[k]
        item == ItemOf(c.ph, c.i)
    IN (c.ph = "p2" /\ ~ExplicitParent(item)) =>
         \A key \in MatchingParents(item) :
           Truthy(task_list_name_to_id[key]) =>
           /\ K_task_list_id \in DOMAIN c.payload
           /\ c.payload[K_task_list_id] = task_list_name_to_id[key]

(***************************************************************************)
(* C7.  A task that carries an explicit non-empty task_list_id is sent     *)
(* with that id, also when its task_list_name is in the resolution map     *)
(* with a different id.                                                    *)
(***************************************************************************)
C7_ExplicitParentWins ==
  \A k \in 1..Len(calls) :
    LET c == calls[k]
        item == ItemOf(c.ph, c.i)
    IN (c.ph = "p2" /\ ExplicitParent(item)) =>
         /\ K_task_list_id \in DOMAIN c.payload
         /\ c.payload[K_task_list_id] = item[K_task_list_id]

(***************************************************************************)
(* C8.  In a unified import no task is processed or sent before every task *)
(* list selected for the run has finished its create/update call and, on   *)
(* success, been recorded in the resolution map; the map is never written  *)
(* during phase 2.                                                         *)
(***************************************************************************)

\* once a task has been processed: all selected task lists have an outcome,
\* each came before every task, and each success is in the map
ParentsDone ==
  (OutcomesOf("p2") # {}) =>
    /\ Cardinality(OutcomesOf("p1")) = Len(Items("p1"))
    /\ \A j \in OutcomesOf("p1") : \A k \in OutcomesOf("p2") : j < k
    /\ \A j \in 1..Len(calls) : \A k \in 1..Len(calls) :
         (calls[j].ph = "p1" /\ calls[k].ph = "p2") => j < k
    /\ \A j \in OutcomesOf("p1") :
         outcomes[j].out \in {"created", "updated"} =>
           Get(ItemOf("p1", outcomes[j].i), K_title, VStr(<<>>))
             \in DOMAIN task_list_name_to_id

C8_ParentsBeforeChildren ==
  /\ []ParentsDone
  /\ [][phase # "p1" => task_list_name_to_id' = task_list_name_to_id]_vars

\* a task stands before a task list in the upload, the task list was
\* written with success, and the task has been sent
C8_Witness ==
  /\ loop = "unified" /\ Len(import_data) >= 2
  /\ HasType(import_data[1], T_task.s)
  /\ \E j \in OutcomesOf("p1") : outcomes[j].out \in {"created", "updated"}
  /\ \E k \in 1..Len(calls) : calls[k].ph = "p2"

(***************************************************************************)
(* C9.  In every import loop a record whose title is missing or empty      *)
(* after payload construction causes no network call.                      *)
(***************************************************************************)

\* the payload built for record i of loop ph
PayloadAt(ph, i) == PayloadOf(ph, ItemOf(ph, i), task_list_name_to_id)

\* the payload has no title, or a null / empty one
TitleAbsentOrEmpty(payload) ==
  K_title \notin DOMAIN payload \/ ~Truthy(payload[K_title])

C9_NoTitleNoCall ==
  \A k \in 1..Len(outcomes) :
    LET o == outcomes[k]
    IN TitleAbsentOrEmpty(PayloadAt(o.ph, o.i)) => CallsFor(o.ph, o.i) = {}

(***************************************************************************)
(* C10.  A failed remote write (network error, timeout, non-2xx status,    *)
(* malformed JSON body) is counted as failed for that record only and      *)
(* never aborts the run: every later record is still processed and the run *)
(* reaches its final summary.                                              *)
(***************************************************************************)
C10_FailedWriteIsLocal ==
  /\ last.resp \in TransportFailures =>
       /\ outcomes[Len(outcomes)] =
            [ph |-> last.ph, i |-> last.i, out |-> "failed", why |-> "write"]
       /\ phase # "aborted"
  /\ \A ph \in {"run", "p1", "p2"} :
       tally[ph].failed =
         Cardinality({k \in OutcomesOf(ph) : outcomes[k].out = "failed"})
  /\ phase = "aborted" => last.resp = "json_nondict"
  /\ phase = "done" =>
       \A ph \in (IF loop = "unified" THEN {"p1", "p2"} ELSE {"run"}) :
         Cardinality(OutcomesOf(ph)) = Len(Items(ph))
  /\ phase \notin {"done", "aborted"} => ENABLED Next

\* a finished run of two records: the write of the first failed, the second
\* was still processed and its write ended in a transport failure as well
C10_Witness ==
  /\ phase = "done"
  /\ Len(outcomes) = 2
  /\ outcomes[1].out = "failed" /\ outcomes[1].why = "write"
  /\ last.resp \in TransportFailures /\ last.i = 2

(***************************************************************************)
(* C11.  With test mode on, a unified import issues at most one write call *)
(* in phase 1 and at most one in phase 2 whatever the batch size, a        *)
(* projects or custom post type import issues at most one write call, and  *)
(* only the first record of each phase is iterated.                        *)
(***************************************************************************)
C11_TestModeOneCallPerPhase ==
  test_import =>
    \A ph \in {"run", "p1", "p2"} :
      /\ Cardinality({k \in 1..Len(calls) : calls[k].ph = ph}) <= 1
      /\ \A k \in 1..Len(calls) : calls[k].ph = ph => calls[k].i = 1
      /\ \A k \in OutcomesOf(ph) : outcomes[k].i = 1
      /\ Cardinality(OutcomesOf(ph)) <= 1

\* a finished test-mode unified import of two task lists and a task, with
\* one call made in each phase
C11_Witness ==
  /\ test_import /\ loop = "unified" /\ phase = "done"
  /\ Len(task_lists_data) = 2 /\ Len(tasks_data) = 1
  /\ Len(calls) = 2
  /\ calls[1].ph = "p1" /\ calls[2].ph = "p2"

(***************************************************************************)
(* C12.  For the same batch, mode and remote responses a test-mode run     *)
(* treats the first record of each phase as a full run treats it: same     *)
(* action, same endpoint, same payload, including the task_list_id sent    *)
(* for the first task.                                                     *)
(*                                                                         *)
(* Up to the end of the first iteration of phase 1 the two runs are the    *)
(* same run.  The test-mode run then goes to phase 2 with the map as it    *)
(* is; the full run first iterates the remaining task lists.  The two      *)
(* send the same payload for the first task iff those further iterations   *)
(* leave that payload as it was.                                           *)
(***************************************************************************)

\* what the task loop does with the first task when it starts with the map
\* name_to_id: pass it over, or write this payload to this target
FirstTaskTreatment(name_to_id) ==
  LET item == tasks_data[1]
      d == Decision(import_mode, ItemId(item))
      payload == TaskPayload(item, name_to_id)
  IN IF d = "skip" THEN [action |-> "skip"]
     ELSE IF UnifiedTitleMissing(payload) THEN [action |-> "fail"]
     ELSE [action |-> d, target |-> PyStr(ItemId(item)), payload |-> payload]

C12_LaterParentsKeepFirstTaskPayload ==
  [][ ( /\ loop = "unified" /\ ~test_import
        /\ phase = "p1" /\ idx >= 1
        /\ tasks_data # <<>> )
      => FirstTaskTreatment(task_list_name_to_id') =
           FirstTaskTreatment(task_list_name_to_id) ]_vars

(***************************************************************************)
(* clean_payload called on its own: on a record, and again on its own      *)
(* output with the same settings.                                          *)
(***************************************************************************)

\* the import loops are not running
Idle ==
  /\ loop = "none"
  /\ import_mode = "Smart"
  /\ test_import = FALSE
  /\ import_data = <<>>
  /\ task_lists_data = <<>>
  /\ tasks_data = <<>>
  /\ selected_fields = {}
  /\ skip_empty = TRUE
  /\ phase = "done"
  /\ idx = 0
  /\ tally = [ph \in {"run", "p1", "p2"} |-> ZeroTally]
  /\ task_list_name_to_id = EmptyDict
  /\ calls = <<>>
  /\ outcomes = <<>>
  /\ last = NoLast

import_run == <<loop, import_mode, test_import, import_data, task_lists_data,
                tasks_data, selected_fields, skip_empty, phase, idx, tally,
                task_list_name_to_id, calls, outcomes, last>>

\* field names and values a record can hold
CleanKeys == {K_id, K_ID, K_Id, K_iD, K_title, K_status}
CleanValues ==
  {None, NaN, VStr(<<>>), VStr(<<" ">>), VStr(<<" ","S"," ">>), VInt(7),
   NpInt(3)}

\* records of at most n fields
RecordsUpTo(n) ==
  UNION { [D -> CleanValues] : D \in {X \in SUBSET CleanKeys : Cardinality(X) <= n} }

\* allow-lists: none, and lists that name an id field or miss a field
AllowLists == {{}, {K_title}, {K_id, K_Id, K_title}, {K_ID, K_status}}

InitClean ==
  /\ Idle
  /\ fn \in [name : {"clean_payload"}, item : RecordsUpTo(MaxLen),
              selected_fields : AllowLists, skip_empty : BOOLEAN,
              exclude_id : BOOLEAN]
  /\ ret = <<>>

\* payload = clean_payload(item, selected_fields, skip_empty, exclude_id)
CleanPayload ==
  /\ fn.name = "clean_payload" /\ ret = <<>>
  /\ ret' = <<clean_payload(fn.item, fn.selected_fields, fn.skip_empty,
                            fn.exclude_id)>>
  /\ UNCHANGED <<import_run, fn>>

\* clean_payload(payload, selected_fields, skip_empty, exclude_id)
CleanPayloadAgain ==
  /\ fn.name = "clean_payload" /\ Len(ret) = 1
  /\ ret' = Append(ret, clean_payload(ret[1], fn.selected_fields,
                                      fn.skip_empty, fn.exclude_id))
  /\ UNCHANGED <<import_run, fn>>

NextClean == CleanPayload \/ CleanPayloadAgain

SpecClean == InitClean /\ [][NextClean]_vars

(***************************************************************************)
(* C13.  With exclude_id = true clean_payload returns a payload with no    *)
(* key equal to "id" case-insensitively (id, ID, Id, iD), whatever the     *)
(* allow-list and skip_empty settings.                                     *)
(***************************************************************************)
C13_NoIdKeyInPayload ==
  (fn.name = "clean_payload" /\ fn.exclude_id) =>
    \A j \in 1..Len(ret) : ~HasIdField(ret[j])

\* a record with an id field under a mixed-case name and a value that is
\* not empty, the allow-list naming that field, cleaned with exclude_id
C13_Witness ==
  /\ fn.name = "clean_payload" /\ fn.exclude_id /\ ~fn.skip_empty
  /\ K_Id \in DOMAIN fn.item /\ K_Id \in fn.selected_fields
  /\ fn.item[K_Id] = VInt(7)
  /\ K_title \in DOMAIN fn.item
  /\ Len(ret) = 1 /\ DOMAIN ret[1] = {K_title}

(***************************************************************************)
(* C14.  clean_payload is idempotent: for every record and every fixed     *)
(* allow-list, skip_empty and exclude_id, cleaning the cleaned payload     *)
(* again gives the cleaned payload.                                        *)
(***************************************************************************)
C14_CleanPayloadIdempotent ==
  (fn.name = "clean_payload" /\ Len(ret) = 2) => ret[2] = ret[1]

\* a record that loses a field and has a boxed value unboxed the first
\* time, cleaned a second time
C14_Witness ==
  /\ fn.name = "clean_payload" /\ fn.skip_empty
  /\ Len(ret) = 2
  /\ DOMAIN ret[1] # DOMAIN fn.item /\ ret[1] # EmptyDict
  /\ \E k \in DOMAIN ret[1] : fn.item[k].k = "npint"

(***************************************************************************)
(* C18.  clean_payload returns exactly the input restricted to the fields  *)
(* that survive three drop rules: a field is dropped iff (exclude_id and   *)
(* its name is id case-insensitively) or (the allow-list is non-empty and  *)
(* the name is not in it) or (skip_empty and the value is null, NaN or a   *)
(* string empty after trimming).  An empty allow-list lets every field     *)
(* pass; surviving keys are not renamed and surviving values are           *)
(* unchanged (a boxed number is the same number).                          *)
(***************************************************************************)

\* the same value, a boxed number counting as the number it holds
SameValue(a, b) ==
  /\ a.s = b.s /\ a.n = b.n
  /\ \/ a.k = b.k
     \/ {a.k, b.k} = {"int", "npint"}

\* the three drop rules, as the claim words them
DroppedByRule(k, v, allow, skip, excl) ==
  \/ excl /\ Lower(Spell[k]) = <<"i","d">>
  \/ allow # {} /\ k \notin allow
  \/ skip /\ (v = None \/ v = NaN \/ (v.k = "str" /\ Strip(v.s) = <<>>))

C18_CleanPayloadIsRestriction ==
  (fn.name = "clean_payload" /\ Len(ret) >= 1) =>
    /\ DOMAIN ret[1] \subseteq DOMAIN fn.item
    /\ \A k \in DOMAIN fn.item :
         k \notin DOMAIN ret[1] <=>
           DroppedByRule(k, fn.item[k], fn.selected_fields, fn.skip_empty,
                         fn.exclude_id)
    /\ \A k \in DOMAIN ret[1] : SameValue(ret[1][k], fn.item[k])

\* a record with a blank string and a kept value, cleaned with skip_empty
\* and an empty allow-list: the blank field is dropped, the other kept
C18_Witness ==
  /\ fn.name = "clean_payload" /\ fn.skip_empty /\ fn.selected_fields = {}
  /\ ~fn.exclude_id
  /\ Len(ret) = 1
  /\ \E k \in DOMAIN fn.item :
       fn.item[k] = VStr(<<" ">>) /\ k \notin DOMAIN ret[1]
  /\ \E k \in DOMAIN ret[1] : IsIdKey(k)

(***************************************************************************)
(* extract_title called on its own, on a project or post object as the     *)
(* REST API or an uploaded file can give it.                               *)
(***************************************************************************)

\* a field that may be missing
Absent == [k |-> "absent", s |-> <<>>, n |-> 0]

\* what the three fields extract_title reads can hold
TitleValues ==
  {Absent, None, VStr(<<>>), T_S, VInt(5), VList(1), VDict(EmptyDict),
   VDict(K_rendered :> VStr(<<"R">>)), VDict(K_rendered :> VStr(<<>>)),
   VDict(K_rendered :> None), VDict(K_rendered :> VInt(3))}
ProjectTitleValues == {Absent, None, VStr(<<>>), VStr(<<"P">>), VInt(0), VInt(4)}
NameValues == {Absent, None, VStr(<<>>), VStr(<<"N">>), VInt(5), VList(1)}

\* the mapping with the fields that are not missing
TitleRecord(t, pt, nm) ==
  LET given == (K_title :> t) @@ (K_project_title :> pt) @@ (K_name :> nm)
  IN [k \in {x \in DOMAIN given : given[x] # Absent} |-> given[k]]

InitTitle ==
  /\ Idle
  /\ \E t \in TitleValues, pt \in ProjectTitleValues, nm \in NameValues :
       fn = [name |-> "extract_title", p |-> TitleRecord(t, pt, nm)]
  /\ ret = <<>>

\* extract_title(p)
ExtractTitle ==
  /\ fn.name = "extract_title" /\ ret = <<>>
  /\ ret' = <<extract_title(fn.p)>>
  /\ UNCHANGED <<import_run, fn>>

NextTitle == ExtractTitle

SpecTitle == InitTitle /\ [][NextTitle]_vars

(***************************************************************************)
(* C15.  extract_title is total and never returns null: for every record   *)
(* mapping, including one whose title object has no rendered value or a    *)
(* null one, or whose title is neither a string nor an object, it returns  *)
(* a string.                                                               *)
(***************************************************************************)
C15_ExtractTitleReturnsString ==
  (fn.name = "extract_title" /\ ret # <<>>) => ret[1].k = "str"

(***************************************************************************)
(* C16.  extract_title returns the rendered title when title is a          *)
(* structured object, else the raw title when title is a string, else      *)
(* project_title, else name, else the empty string; {title:{rendered:X}}   *)
(* gives X, {title:S} gives S, {name:N} without title gives N, {} gives "".*)
(***************************************************************************)
C16_ExtractTitlePrecedence ==
  (fn.name = "extract_title" /\ ret # <<>>) =>
    LET p == fn.p
        r == ret[1]
        t == Get(p, K_title, None)
        pt == Get(p, K_project_title, None)
        nm == Get(p, K_name, None)
        fallback == t.k \notin {"dict", "str"}
    IN /\ (t.k = "dict" /\ K_rendered \in DOMAIN t.d) => r = t.d[K_rendered]
       /\ t.k = "str" => r = t
       /\ (fallback /\ Truthy(pt)) => r = pt
       /\ (fallback /\ ~Truthy(pt) /\ Truthy(nm)) => r = nm
       /\ (fallback /\ ~Truthy(pt) /\ ~Truthy(nm)) => r = VStr(<<>>)
       /\ p = (K_title :> VDict(K_rendered :> VStr(<<"R">>))) => r = VStr(<<"R">>)
       /\ p = (K_title :> T_S) => r = T_S
       /\ p = (K_name :> VStr(<<"N">>)) => r = VStr(<<"N">>)
       /\ p = EmptyDict => r = VStr(<<>>)

\* a record without title that has both a project_title and a name: the
\* project_title is returned
C16_Witness ==
  /\ fn.name = "extract_title"
  /\ K_title \notin DOMAIN fn.p
  /\ Get(fn.p, K_project_title, None) = VStr(<<"P">>)
  /\ Get(fn.p, K_name, None) = VStr(<<"N">>)
  /\ ret = <<VStr(<<"P">>)>>

(***************************************************************************)
(* fetch_all_pages called on its own.  The server holds a sequence of      *)
(* pages; a request for a page past the last gets an empty array.  A page  *)
(* is described by its shape and by how many of its items are mappings     *)
(* (dicts) and how many are not (others):                                  *)
(*   list    : a bare JSON array                                           *)
(*   wrapped : an object with the array under "data"                       *)
(*   nodata  : a non-empty object without an array under "data"            *)
(*   scalar  : a truthy JSON value that is neither array nor object        *)
(*   none    : wp_get_json returned None (request failed) or a falsy value *)
(***************************************************************************)
per_page == 100

ItemCounts == {0, 1, per_page - 1, per_page}

Pages ==
  { pg \in [shape : {"list", "wrapped"}, dicts : ItemCounts,
            others : ItemCounts] : pg.dicts + pg.others <= per_page }
    \cup { [shape |-> sh, dicts |-> 0, others |-> 0] :
             sh \in {"nodata", "scalar", "none"} }

\* wp_get_json(base_url, params) for page number i
ServerPage(pages, i) ==
  IF i <= Len(pages) THEN pages[i]
  ELSE [shape |-> "list", dicts |-> 0, others |-> 0]

\* not data
DataFalsy(data) ==
  \/ data.shape = "none"
  \/ data.shape = "list" /\ data.dicts + data.others = 0

InitFetch ==
  /\ Idle
  /\ fn \in [name : {"fetch_all_pages"}, pages : SeqsUpTo(Pages, MaxLen)]
  /\ ret = [page |-> 1, all_items |-> <<>>, requested |-> <<>>,
            returned |-> FALSE]

\* all_items.extend(items), the items of a page kept as one run of n items
Extend(all_items, page, n) ==
  IF n > 0 THEN Append(all_items, [page |-> page, n |-> n]) ELSE all_items

\* one iteration of "while True:", up to break or page += 1
FetchPage ==
  /\ fn.name = "fetch_all_pages" /\ ~ret.returned
  /\ LET data == ServerPage(fn.pages, ret.page)
         requested == Append(ret.requested,
                             [page |-> ret.page, per_page |-> per_page])
         items == data.dicts
     IN ret' =
          IF DataFalsy(data) \/ data.shape \in {"nodata", "scalar"}
            THEN [ret EXCEPT !.requested = requested, !.returned = TRUE]
            ELSE [page |-> IF items < per_page THEN ret.page
                           ELSE ret.page + 1,
                  all_items |-> Extend(ret.all_items, ret.page, items),
                  requested |-> requested,
                  returned |-> items < per_page]
  /\ UNCHANGED <<import_run, fn>>

NextFetch == FetchPage

SpecFetch == InitFetch /\ [][NextFetch]_vars

(***************************************************************************)
(* C17.  fetch_all_pages requests pages 1, 2, 3, ... with page size 100    *)
(* and returns, in page order, every mapping item of every page up to and  *)
(* including the first page on which the server returned fewer than 100    *)
(* items or an empty or absent result, a page being a bare array or an     *)
(* object with the array under "data"; no such item is lost and no page    *)
(* after that one is requested.                                            *)
(***************************************************************************)

\* how many items the server returned on a page
Returned(data) ==
  IF data.shape \in {"list", "wrapped"} THEN data.dicts + data.others ELSE 0

\* the first page on which the server returned fewer than 100 items
ShortPage(pages) ==
  CHOOSE i \in 1..(Len(pages) + 1) :
    /\ Returned(ServerPage(pages, i)) < per_page
    /\ \A j \in 1..(i - 1) : Returned(ServerPage(pages, j)) >= per_page

\* the mapping items of pages 1..i, in page order
RECURSIVE ItemsThrough(_, _)
ItemsThrough(pages, i) ==
  IF i = 0 THEN <<>>
  ELSE Extend(ItemsThrough(pages, i - 1), i, ServerPage(pages, i).dicts)

C17_FetchAllPagesThroughShortPage ==
  (fn.name = "fetch_all_pages" /\ ret.returned) =>
    /\ ret.requested = [i \in 1..ShortPage(fn.pages) |->
                          [page |-> i, per_page |-> per_page]]
    /\ ret.all_items = ItemsThrough(fn.pages, ShortPage(fn.pages))

(***************************************************************************)
(* C19.  A record whose title is missing or empty is counted as skipped,   *)
(* not as failed: after it is processed the skipped count has grown by one *)
(* and the failed count is unchanged (projects, task-list and task loops). *)
(***************************************************************************)
C19_NoTitleCountsSkipped ==
  [][ \A ph \in {"run", "p1", "p2"} :
        ( /\ loop \in {"projects", "unified"}
          /\ phase = ph /\ ~LoopFinished(ph)
          /\ Decision(import_mode, ItemId(ItemOf(ph, idx + 1))) # "skip"
          /\ TitleAbsentOrEmpty(PayloadAt(ph, idx + 1)) )
        => /\ tally'[ph].skipped = tally[ph].skipped + 1
           /\ tally'[ph].failed = tally[ph].failed ]_vars

(***************************************************************************)
(* C20.  An import run never mutates the uploaded batch: after any run, in *)
(* any mode and with any mix of successes and failures, every record of    *)
(* the batch has the fields and values it had before the run.              *)
(***************************************************************************)
C20_BatchNeverMutated ==
  [][ /\ import_data' = import_data
      /\ task_lists_data' = task_lists_data
      /\ tasks_data' = tasks_data ]_vars

\* a finished full run over two records, one carrying an id, in which one
\* write succeeded and one record failed
C20_Witness ==
  /\ phase = "done" /\ ~test_import
  /\ Len(import_data) = 2
  /\ \E i \in 1..2 : RecordHasId(import_data[i])
  /\ calls # <<>>
  /\ \E k \in 1..Len(outcomes) : outcomes[k].out = "failed"
  /\ \E k \in 1..Len(outcomes) : outcomes[k].out \in {"created", "updated"}

(***************************************************************************)
(* C21.  During phase 1 of a unified import the resolution map gains an    *)
(* entry title -> id exactly when a task list's create or update call      *)
(* succeeds (the id the remote returned for a create, the record's own id  *)
(* for an update); a failed, skipped or title-less task list adds no       *)
(* entry, and every entry's id is a usable (non-null) identifier.          *)
(***************************************************************************)

\* the phase-1 outcomes of the task lists titled key that were written
WrittenParents(key) ==
  {k \in OutcomesOf("p1") :
     /\ outcomes[k].out \in {"created", "updated"}
     /\ Get(ItemOf("p1", outcomes[k].i), K_title, VStr(<<>>)) = key}

C21_MapHoldsWrittenParents ==
  loop = "unified" =>
    /\ \A key \in DOMAIN task_list_name_to_id :
         /\ WrittenParents(key) # {}
         /\ NonEmptyId(task_list_name_to_id[key])
    /\ \A k \in OutcomesOf("p1") :
         (outcomes[k].out \in {"created", "updated"} /\ phase # "aborted") =>
           Get(ItemOf("p1", outcomes[k].i), K_title, VStr(<<>>))
             \in DOMAIN task_list_name_to_id

(***************************************************************************)
(* C22.  In every import loop has_id is true exactly when the record's id  *)
(* field is present and non-empty: a record whose id is absent, null, an   *)
(* empty string or a blank cell of a tabular upload is treated as having   *)
(* no id (created in Smart mode, skipped in UpdateOnly mode), and any      *)
(* other id value as having one.                                           *)
(***************************************************************************)

C22_HasIdIffPresentAndNonEmpty ==
  \A k \in 1..Len(outcomes) :
    LET o == outcomes[k]
        has_id == RecordHasId(ItemOf(o.ph, o.i))
        methods == {calls[c].method : c \in CallsFor(o.ph, o.i)}
    IN /\ import_mode = "UpdateOnly" => (has_id <=> o.out # "skipped")
       /\ import_mode = "Smart" =>
            IF has_id THEN o.out # "created" /\ "POST" \notin methods
            ELSE o.out # "updated" /\ "PUT" \notin methods

(***************************************************************************)
(* C23.  Within a phase, in every mode, write calls are issued in the      *)
(* batch's record order, and the action, endpoint and payload chosen for a *)
(* record depend only on that record, the mode and the outcomes of earlier *)
(* records (the resolution map phase 1 left), never on a later record.     *)
(***************************************************************************)
C23_CallsInOrderFromOwnRecord ==
  /\ \A j, k \in 1..Len(calls) :
       j < k =>
         \/ calls[j].ph = calls[k].ph /\ calls[j].i < calls[k].i
         \/ calls[j].ph = "p1" /\ calls[k].ph = "p2"
  /\ \A k \in 1..Len(calls) :
       LET c == calls[k]
           item == ItemOf(c.ph, c.i)
           d == Decision(import_mode, ItemId(item))
       IN /\ c.method = (IF d = "update" THEN "PUT" ELSE "POST")
          /\ c.target = (IF d = "update" THEN PyStr(ItemId(item)) ELSE <<>>)
          /\ c.payload =
               CASE c.ph = "p1" -> TaskListPayload(item)
                 [] c.ph = "p2" -> TaskPayload(item, task_list_name_to_id)
                 [] OTHER ->
                      clean_payload(item, selected_fields, skip_empty, TRUE)

\* a finished full run that made two calls in one phase, for two different
\* records with different payloads
C23_Witness ==
  /\ phase = "done" /\ ~test_import
  /\ Len(calls) >= 2
  /\ calls[1].ph = calls[2].ph
  /\ ItemOf(calls[1].ph, calls[1].i) # ItemOf(calls[2].ph, calls[2].i)
  /\ calls[1].payload # calls[2].payload

(***************************************************************************)
(* C24.  An import run never undoes earlier work: it issues only create    *)
(* (POST) and update (PUT) calls, never DELETE, and a failure of a later   *)
(* record leaves the created and updated counts reached by earlier records *)
(* unchanged; the four counters never decrease during a run.               *)
(***************************************************************************)
OnlyCreateAndUpdateCalls ==
  \A k \in 1..Len(calls) : calls[k].method \in {"POST", "PUT"}

C24_NoRollback ==
  /\ []OnlyCreateAndUpdateCalls
  /\ [][ \A ph \in {"run", "p1", "p2"} :
           /\ \A c \in {"created", "updated", "skipped", "failed"} :
                tally'[ph][c] >= tally[ph][c]
           /\ tally'[ph].failed > tally[ph].failed =>
                /\ tally'[ph].created = tally[ph].created
                /\ tally'[ph].updated = tally[ph].updated ]_vars

\* a finished run in which a record was created or updated and a later
\* record's write failed, the earlier count still standing
C24_Witness ==
  /\ phase = "done"
  /\ \E j, k \in 1..Len(outcomes) :
       /\ j < k /\ outcomes[j].ph = outcomes[k].ph
       /\ outcomes[j].out \in {"created", "updated"}
       /\ outcomes[k].out = "failed" /\ outcomes[k].why = "write"
       /\ tally[outcomes[j].ph][outcomes[j].out] >= 1

(***************************************************************************)
(* C25.  Every iterated record is accounted for exactly once: at the end   *)
(* of each import loop created + updated + skipped + failed equals the     *)
(* number of records iterated (the whole batch, or one record in test      *)
(* mode), and each record causes at most one remote write call.            *)
(***************************************************************************)

\* the loops that have reached their summary
LoopsEnded ==
  CASE phase = "done" /\ loop = "unified" -> {"p1", "p2"}
    [] phase = "done" /\ loop # "unified" -> {"run"}
    [] phase = "p2" -> {"p1"}
    [] OTHER -> {}

\* the records the loop is meant to iterate: all, or the first in test mode
ToIterate(ph) ==
  LET data == CASE ph = "p1" -> task_lists_data
                [] ph = "p2" -> tasks_data
                [] OTHER -> import_data
  IN IF test_import /\ Len(data) > 1 THEN 1 ELSE Len(data)

C25_EveryRecordCountedOnce ==
  /\ \A ph \in LoopsEnded :
       tally[ph].created + tally[ph].updated + tally[ph].skipped
         + tally[ph].failed = ToIterate(ph)
  /\ \A ph \in {"run", "p1", "p2"} :
       \A i \in 1..ToIterate(ph) : Cardinality(CallsFor(ph, i)) <= 1

\* a finished full run over at least two records that ended in different
\* ways, one of them without a call
C25_Witness ==
  /\ phase = "done" /\ ~test_import
  /\ Len(outcomes) >= 2
  /\ Cardinality({outcomes[k].out : k \in 1..Len(outcomes)}) >= 2
  /\ calls # <<>> /\ Len(calls) < Len(outcomes)

(***************************************************************************)
(* The "Edit Single Project" section: Load, Save and Delete clicks on the  *)
(* session state (edit_project, confirm_delete).  ret holds the session    *)
(* state and, as history, the project that was loaded when the pending     *)
(* confirmation was set and the PUT and DELETE calls issued.               *)
(***************************************************************************)
MaxClicks == MaxLen + 3
ProjectIds == 1..MaxLen

\* no project loaded
NoProject == 0

InitEdit ==
  /\ Idle
  /\ fn = [name |-> "edit_project"]
  /\ ret = [edit_project |-> NoProject, confirm_delete |-> FALSE,
            confirmed_for |-> NoProject, deletes |-> <<>>, puts |-> <<>>,
            clicks |-> 0]

\* if load_btn and project_id: proj = wp_get_json(...); if proj: ...
LoadProject ==
  /\ fn.name = "edit_project" /\ ret.clicks < MaxClicks
  /\ \E project_id \in ProjectIds, found \in BOOLEAN :
       ret' = [ret EXCEPT !.clicks = @ + 1,
                          !.edit_project = IF found THEN project_id ELSE @]
  /\ UNCHANGED <<import_run, fn>>

\* if save_btn: res = wp_put_json(...); if res: edit_project = res
SaveProject ==
  /\ fn.name = "edit_project" /\ ret.clicks < MaxClicks
  /\ ret.edit_project # NoProject
  /\ ret' = [ret EXCEPT !.clicks = @ + 1,
                        !.puts = Append(@, ret.edit_project)]
  /\ UNCHANGED <<import_run, fn>>

\* if delete_btn: ...
DeleteProject ==
  /\ fn.name = "edit_project" /\ ret.clicks < MaxClicks
  /\ ret.edit_project # NoProject
  /\ IF ret.confirm_delete
       THEN \E res \in BOOLEAN :
         LET call == [id |-> ret.edit_project,
                      confirmed_for |-> ret.confirmed_for]
         IN ret' = IF res
                     THEN [edit_project |-> NoProject,
                           confirm_delete |-> FALSE,
                           confirmed_for |-> NoProject,
                           deletes |-> Append(ret.deletes, call),
                           puts |-> ret.puts,
                           clicks |-> ret.clicks + 1]
                     ELSE [ret EXCEPT !.deletes = Append(@, call),
                                      !.clicks = @ + 1]
       ELSE ret' = [ret EXCEPT !.confirm_delete = TRUE,
                               !.confirmed_for = ret.edit_project,
                               !.clicks = @ + 1]
  /\ UNCHANGED <<import_run, fn>>

NextEdit == LoadProject \/ SaveProject \/ DeleteProject

SpecEdit == InitEdit /\ [][NextEdit]_vars

(***************************************************************************)
(* C26.  A project is deleted only after Delete has been clicked twice for *)
(* that same loaded project: a DELETE call for project P is issued only if *)
(* the immediately preceding confirmation click was made while P was the   *)
(* loaded project, and the pending-confirmation flag is cleared whenever   *)
(* the loaded project changes or a delete completes.                       *)
(***************************************************************************)
C26_DeleteConfirmedForSameProject ==
  fn.name = "edit_project" =>
    /\ \A k \in 1..Len(ret.deletes) :
         ret.deletes[k].id = ret.deletes[k].confirmed_for
    /\ ret.confirm_delete => ret.confirmed_for = ret.edit_project

(***************************************************************************)
(* C27.  When two or more task lists of one unified batch have the same    *)
(* title, the resolution map holds for that title the id of the last one   *)
(* whose create or update succeeded, and every phase-2 task naming that    *)
(* title is linked to that last id.                                        *)
(***************************************************************************)

\* the id of the task list written by phase-1 outcome k: its own id for an
\* update, the id the remote gave it for a create
WrittenId(k) ==
  LET o == outcomes[k]
      c == CHOOSE x \in CallsFor("p1", o.i) : TRUE
  IN IF o.out = "updated" THEN ItemId(ItemOf("p1", o.i)) ELSE VInt(40 + c)

\* the last task list titled key that was written
LastWritten(key) ==
  CHOOSE k \in WrittenParents(key) : \A j \in WrittenParents(key) : j <= k

C27_LastSameTitledParentWins ==
  (loop = "unified" /\ phase \in {"p2", "done"}) =>
    \A key \in {Get(task_lists_data[i], K_title, VStr(<<>>)) :
                   i \in 1..Len(task_lists_data)} :
      Cardinality(WrittenParents(key)) >= 2 =>
        /\ key \in DOMAIN task_list_name_to_id
        /\ task_list_name_to_id[key] = WrittenId(LastWritten(key))
        /\ \A c \in 1..Len(calls) :
             ( /\ calls[c].ph = "p2"
               /\ Get(ItemOf("p2", calls[c].i), K_task_list_name, None) = key )
             => /\ K_task_list_id \in DOMAIN calls[c].payload
                /\ calls[c].payload[K_task_list_id] = WrittenId(LastWritten(key))

(***************************************************************************)
(* C28.  fetch_all_pages terminates whenever the remote eventually returns *)
(* a page that is short, empty, malformed or failed, and it stops at the   *)
(* first such page: a failed or non-list page request ends the loop, the   *)
(* items of the pages fetched so far are the result, and no further page   *)
(* is requested.                                                           *)
(***************************************************************************)

\* a page that is short, empty, malformed (no array) or failed
EndingPage(data) ==
  \/ data.shape \in {"none", "nodata", "scalar"}
  \/ data.dicts + data.others < per_page

C28_StopsAtFirstEndingPage ==
  (fn.name = "fetch_all_pages" /\ ret.returned) =>
    LET q == Len(ret.requested)
    IN /\ q >= 1 /\ ret.requested[q].page = q
       /\ EndingPage(ServerPage(fn.pages, q))
       /\ \A j \in 1..(q - 1) : ~EndingPage(ServerPage(fn.pages, j))
       /\ ServerPage(fn.pages, q).shape \in {"none", "nodata", "scalar"} =>
            ret.all_items = ItemsThrough(fn.pages, q - 1)

====
